---- MODULE Spec2Model ----
(***************************************************************************)
(* Model of two components of libosmocore:                                 *)
(*   - the signal bus (signal.c): osmo_signal_register_handler,            *)
(*     osmo_signal_unregister_handler, osmo_signal_dispatch;               *)
(*   - the process launcher helpers (exec.c): osmo_environment_filter,     *)
(*     osmo_environment_append.                                            *)
(* Every C function is an operator computing the function's effect on the  *)
(* memory it is handed; the actions apply the operators to inputs drawn    *)
(* from small sets and record the call so that properties can speak about  *)
(* the state before and after it.                                          *)
(***************************************************************************)
EXTENDS Integers, Sequences, FiniteSets, TLC

VARIABLES
    signal_handler_list,  \* signal.c: the registry, a sequence of handler records
    tall_sigh_ctx2,       \* signal.c: the lazily created talloc context (NULL or CTX)
    sig_call,             \* the last signal-bus call: name, arguments, return code
    sig_pre,              \* the registry and context as they were before that call
    cb_log,               \* the callback invocations made by the last dispatch
    reg_order,            \* history: addresses of the live registrations, oldest first
    net_regs,             \* history: per triple, registrations minus matched unregistrations
    out,                  \* exec.c: the caller-allocated array of pointers
    env_call,             \* the last environment call: name, arguments, result
    env_pre,              \* the array as it was before that call
    parent,               \* exec.c: the process that calls the launcher or the sweep
    proc,                 \* exec.c: the process that runs the sweep and the child's path
    sweep,                \* exec.c: the locals of osmo_close_all_fds_above and its history
    launch,               \* exec.c: the arguments of osmo_system_nowait, fork and execle
    dispatch              \* signal.c: the osmo_signal_dispatch call in progress

sig_vars == <<signal_handler_list, tall_sigh_ctx2, sig_call, sig_pre, cb_log,
              reg_order, net_regs, dispatch>>
env_vars == <<out, env_call, env_pre>>
exec_vars == <<parent, proc, sweep, launch>>
vars == <<signal_handler_list, tall_sigh_ctx2, sig_call, sig_pre, cb_log,
          reg_order, net_regs, out, env_call, env_pre,
          parent, proc, sweep, launch, dispatch>>

(***************************************************************************)
(* Bounds of the model.                                                    *)
(***************************************************************************)
BufSize == 5      \* slots of the caller-allocated output array
MaxIn == 3        \* entries of the input environment handed to the filter
MaxAdd == 2       \* entries of the second list handed to append
MaxPre == 2       \* entries the output array holds before append is called
MaxHandlers == 3  \* handler records the allocator can hold at one time
MaxInitRegs == 2  \* registrations made before the dispatch
MaxEnviron == 2   \* entries of the environment the launching process inherited

(***************************************************************************)
(* Program constants.                                                      *)
(***************************************************************************)
TmpSize == 256    \* char tmp[256]
EINVAL == 22
ENOMEM == 12
NULL == 0         \* the null pointer, also the sentinel of a pointer array
Junk == -1        \* the content of a slot nobody has written yet
CTX == 1          \* the address talloc_named_const returns when it succeeds
ENODEV == 19
EIO == 5
StdioMax == 2     \* osmo_close_all_fds_above(2)
NoFd == -1        \* no descriptor: fork() failing, or no directory stream open

(***************************************************************************)
(* Strings are sequences of characters.  An environment entry is a pointer *)
(* (1..6) to one of the strings of Str; the arrays hold the pointers, never*)
(* the strings.                                                            *)
(***************************************************************************)
Rep(c, n) == [i \in 1..n |-> c]

TestStr ==
    << <<"A", "=", "1">>,                    \* A=1
       <<"B", "=", "A", "=", "2">>,          \* B=A=2   (two '=')
       <<"A", "B", "=", "3">>,               \* AB=3    (A is a prefix of the key)
       <<"A">>,                              \* A       (no '=')
       Rep("L", TmpSize) \o <<"=", "v">>,    \* key of TmpSize characters
       Rep("L", TmpSize - 1) \o <<"=", "v">> \* key of TmpSize-1 characters
    >>

\* the entries a launching process meets: pointers 7..10
ProcStr ==
    << <<"P", "A", "T", "H", "=", "/", "b", "i", "n">>,   \* PATH=/bin
       <<"L", "D", "_", "P", "R", "E", "L", "O", "A", "D", "=", "x">>,   \* LD_PRELOAD=x
       <<"S", "E", "C", "R", "E", "T", "=", "1">>,   \* SECRET=1
       <<"F", "O", "O", "=", "1">>    \* FOO=1
    >>

Str == TestStr \o ProcStr

\* the entries the filter and append calls are tried on
Ptr == DOMAIN TestStr

\* entries of the inherited environment (extern char **environ)
EnvironPtr == { p \in DOMAIN Str : p > Len(TestStr) /\ p < Len(Str) }

\* entries a caller hands in as addl_env: one of its own, one it inherited
AddlPtr == { p \in DOMAIN Str : p >= Len(Str) - 1 }

Whitelists ==
    { << <<"A">>, <<"B">>, Rep("L", TmpSize), Rep("L", TmpSize - 1) >>,
      << <<"B">>, <<"A", "B">> >>,
      << >> }

\* static const char *environment_whitelist[]
environment_whitelist ==
    << <<"U", "S", "E", "R">>,
       <<"L", "O", "G", "N", "A", "M", "E">>,
       <<"H", "O", "M", "E">>,
       <<"L", "A", "N", "G">>,
       <<"L", "C", "_", "A", "L", "L">>,
       <<"L", "C", "_", "C", "O", "L", "L", "A", "T", "E">>,
       <<"L", "C", "_", "C", "T", "Y", "P", "E">>,
       <<"L", "C", "_", "M", "E", "S", "S", "A", "G", "E", "S">>,
       <<"L", "C", "_", "M", "O", "N", "E", "T", "A", "R", "Y">>,
       <<"L", "C", "_", "N", "U", "M", "E", "R", "I", "C">>,
       <<"L", "C", "_", "T", "I", "M", "E">>,
       <<"P", "A", "T", "H">>,
       <<"P", "W", "D">>,
       <<"S", "H", "E", "L", "L">>,
       <<"T", "E", "R", "M">>,
       <<"T", "M", "P", "D", "I", "R">>,
       <<"L", "D", "_", "L", "I", "B", "R", "A", "R", "Y", "_", "P", "A", "T", "H">>,
       <<"L", "D", "_", "P", "R", "E", "L", "O", "A", "D">>,
       <<"P", "O", "S", "I", "X", "L", "Y", "_", "C", "O", "R", "R", "E", "C", "T">>,
       <<"H", "O", "S", "T", "A", "L", "I", "A", "S", "E", "S">>,
       <<"T", "Z">>,
       <<"T", "Z", "D", "I", "R">>,
       <<"T", "E", "R", "M", "C", "A", "P">>,
       <<"C", "O", "L", "U", "M", "N", "S">>,
       <<"L", "I", "N", "E", "S">> >>

SeqsUpTo(S, n) == UNION { [1..k -> S] : k \in 0..n }

Slots == 0..BufSize    \* the array's slots 0..BufSize-1 and the slot after it

(***************************************************************************)
(* exec.c                                                                  *)
(***************************************************************************)

\* out[idx] = v, remembering which slots the call has written
Store(m, idx, v) ==
    [mem |-> [m.mem EXCEPT ![idx] = v], wr |-> m.wr \cup {idx}]

\* strchr(s, c): the 1-based position of the first c in s, 0 (NULL) when none
strchr(s, c) ==
    LET hits == { i \in 1..Len(s) : s[i] = c }
    IN  IF hits = {} THEN 0
        ELSE CHOOSE i \in hits : \A j \in hits : i <= j

\* strncpy(tmp, s, n); tmp[n] = '\0'
strncpy_key(s, n) == SubSeq(s, 1, n)

\* !strcmp(a, b)
strcmp_eq(a, b) == a = b

RECURSIVE str_in_list_from(_, _, _)
str_in_list_from(list, key, i) ==
    IF i > Len(list) THEN FALSE
    ELSE IF strcmp_eq(list[i], key) THEN TRUE
    ELSE str_in_list_from(list, key, i + 1)

str_in_list(list, key) == str_in_list_from(list, key, 1)

\* a bound check that is off by one: eq_pos > ARRAY_SIZE(tmp)
KeyTooLong_OffByOne(eq_pos) == eq_pos > TmpSize

\* eq_pos >= ARRAY_SIZE(tmp)
KeyTooLong(eq_pos) == eq_pos >= TmpSize

\* a capacity check that forgets the sentinel's slot: out_used == out_len
FilterFull_NoSentinelSlot(out_used, out_len) == out_used = out_len

\* out_used == out_len-1
FilterFull(out_used, out_len) == out_used = out_len - 1

\* the for loop of osmo_environment_filter, from entry i of in
RECURSIVE filter_loop(_, _, _, _, _, _)
filter_loop(m, out_len, in, whitelist, i, out_used) ==
    IF i > Len(in) THEN [m |-> m, out_used |-> out_used]
    ELSE
        LET ent == in[i]
            eq == strchr(Str[ent], "=")
            eq_pos == eq - 1
        IN  IF eq = 0
            THEN filter_loop(m, out_len, in, whitelist, i + 1, out_used)
            ELSE IF KeyTooLong(eq_pos)
            THEN filter_loop(m, out_len, in, whitelist, i + 1, out_used)
            ELSE IF str_in_list(whitelist, strncpy_key(Str[ent], eq_pos))
            THEN IF FilterFull(out_used, out_len)
                 THEN [m |-> m, out_used |-> out_used]
                 ELSE filter_loop(Store(m, out_used, ent), out_len, in,
                                  whitelist, i + 1, out_used + 1)
            ELSE filter_loop(m, out_len, in, whitelist, i + 1, out_used)

\* an argument check that forgets the whitelist: if (!out || out_len == 0)
FilterInvalid_NoWhitelistCheck(a) == a.out_null \/ a.out_len = 0

\* if (!out || out_len == 0 || !whitelist)
FilterInvalid(a) == a.out_null \/ a.out_len = 0 \/ a.wl_null

\* a null input treated as one more invalid call
filter_null_in_AsError(m0) ==
    [rc |-> -EINVAL, aborted |-> FALSE, mem |-> m0.mem, wr |-> m0.wr]

\* if (!in) { out[0] = NULL; return 1; }
filter_null_in(m0) ==
    LET m1 == Store(m0, 0, NULL)
    IN  [rc |-> 1, aborted |-> FALSE, mem |-> m1.mem, wr |-> m1.wr]

\* osmo_environment_filter(out, out_len, in, whitelist) on memory mem:
\* the return code, whether OSMO_ASSERT aborted, the memory and the writes
osmo_environment_filter(mem, a) ==
    LET m0 == [mem |-> mem, wr |-> {}]
    IN  IF FilterInvalid(a)
        THEN [rc |-> -EINVAL, aborted |-> FALSE, mem |-> mem, wr |-> {}]
        ELSE IF a.in_null
        THEN filter_null_in(m0)
        ELSE LET r == filter_loop(m0, a.out_len, a.in, a.wl, 1, 0)
             IN  IF ~(r.out_used < a.out_len)
                 THEN [rc |-> 0, aborted |-> TRUE, mem |-> r.m.mem, wr |-> r.m.wr]
                 ELSE LET m1 == Store(r.m, r.out_used, NULL)
                      IN  [rc |-> r.out_used + 1, aborted |-> FALSE,
                           mem |-> m1.mem, wr |-> m1.wr]

\* for (out_used = 0; out[out_used]; out_used++) {}
RECURSIVE seek_end(_, _)
seek_end(mem, out_used) ==
    IF mem[out_used] = NULL THEN out_used ELSE seek_end(mem, out_used + 1)

\* a loop bound that forgets the sentinel's slot: out_used < out_len
AppendRoom_NoSentinelSlot(out_used, out_len) == out_used < out_len

\* out_used < out_len-1
AppendRoom(out_used, out_len) == out_used < out_len - 1

\* for (; *in && out_used < out_len-1; in++) out[out_used++] = *in;
RECURSIVE append_loop(_, _, _, _, _)
append_loop(m, out_len, in, i, out_used) ==
    IF i <= Len(in) /\ AppendRoom(out_used, out_len)
    THEN append_loop(Store(m, out_used, in[i]), out_len, in, i + 1, out_used + 1)
    ELSE [m |-> m, out_used |-> out_used]

\* a null second list that always terminates the array at slot 0
append_null_in_Truncating(m0, out_used) ==
    LET m1 == Store(m0, 0, NULL)
    IN  [rc |-> 1, aborted |-> FALSE, mem |-> m1.mem, wr |-> m1.wr]

\* the branch of osmo_environment_append taken for a null second list
append_null_in(m0, out_used) ==
    IF out_used = 0
    THEN LET m1 == Store(m0, out_used, NULL)
         IN  [rc |-> out_used + 1, aborted |-> FALSE, mem |-> m1.mem, wr |-> m1.wr]
    ELSE [rc |-> out_used, aborted |-> FALSE, mem |-> m0.mem, wr |-> m0.wr]

\* osmo_environment_append(out, out_len, in) on memory mem
osmo_environment_append(mem, a) ==
    LET m0 == [mem |-> mem, wr |-> {}]
    IN  IF a.out_null \/ a.out_len = 0
        THEN [rc |-> -EINVAL, aborted |-> FALSE, mem |-> mem, wr |-> {}]
        ELSE LET used0 == seek_end(mem, 0)
             IN  IF a.in_null
                 THEN append_null_in(m0, used0)
                 ELSE LET r == append_loop(m0, a.out_len, a.in, 1, used0)
                      IN  IF ~(r.out_used < a.out_len)
                          THEN [rc |-> 0, aborted |-> TRUE,
                                mem |-> r.m.mem, wr |-> r.m.wr]
                          ELSE LET m1 == Store(r.m, r.out_used, NULL)
                               IN  [rc |-> r.out_used + 1, aborted |-> FALSE,
                                    mem |-> m1.mem, wr |-> m1.wr]

(***************************************************************************)
(* The environment calls as actions.                                       *)
(***************************************************************************)
NoEnvCall ==
    [name |-> "none", out_null |-> FALSE, out_len |-> 0, in_null |-> TRUE,
     in |-> <<>>, wl_null |-> TRUE, wl |-> <<>>, rc |-> 0, aborted |-> FALSE,
     wr |-> {}]

\* an array nobody has written yet (char *new_env[1024] on the stack)
FreshArray == [i \in Slots |-> Junk]

\* an array holding k entries followed by the sentinel
Populated(pre) ==
    [i \in Slots |-> IF i < Len(pre) THEN pre[i + 1]
                     ELSE IF i = Len(pre) THEN NULL ELSE Junk]

EnvArgs(name, out_null, out_len, in_null, in, wl_null, wl) ==
    [name |-> name, out_null |-> out_null, out_len |-> out_len,
     in_null |-> in_null, in |-> in, wl_null |-> wl_null, wl |-> wl]

EnvDone(a, r) ==
    /\ out' = r.mem
    /\ env_pre' = out
    /\ env_call' = [name |-> a.name, out_null |-> a.out_null,
                    out_len |-> a.out_len, in_null |-> a.in_null, in |-> a.in,
                    wl_null |-> a.wl_null, wl |-> a.wl,
                    rc |-> r.rc, aborted |-> r.aborted, wr |-> r.wr]

EnvFilter ==
    /\ env_call.name = "none"
    /\ \E out_null \in BOOLEAN, out_len \in 0..BufSize,
          in_null \in BOOLEAN, wl_null \in BOOLEAN :
       \E in \in (IF in_null THEN {<<>>} ELSE SeqsUpTo(Ptr, MaxIn)),
          wl \in (IF wl_null THEN {<<>>} ELSE Whitelists) :
          LET a == EnvArgs("filter", out_null, out_len, in_null, in, wl_null, wl)
          IN  EnvDone(a, osmo_environment_filter(out, a))
    /\ UNCHANGED <<sig_vars, exec_vars>>

EnvAppend ==
    /\ env_call.name = "none"
    /\ \E out_null \in BOOLEAN, out_len \in 0..BufSize, in_null \in BOOLEAN :
       \E in \in (IF in_null THEN {<<>>} ELSE SeqsUpTo(Ptr, MaxAdd)) :
          LET a == EnvArgs("append", out_null, out_len, in_null, in, TRUE, <<>>)
          IN  EnvDone(a, osmo_environment_append(out, a))
    /\ UNCHANGED <<sig_vars, exec_vars>>

(***************************************************************************)
(* signal.c                                                                *)
(***************************************************************************)
Subsys == {1, 2}
Cbfn == {"cb_f", "cb_g"}
Data == {"d1", "d2"}
Signals == {10, 11}
SignalData == {"s1"}

\* the triples unregister is called with
Triples == [subsys : Subsys, cbfn : Cbfn, data : Data]

\* the triples register is called with: one triple and the three that differ
\* from it in one field
RegTriples ==
    { t \in Triples :
        Cardinality({ f \in {"subsys", "cbfn", "data"} :
                        t[f] # [subsys |-> 1, cbfn |-> "cb_f", data |-> "d1"][f] }) <= 1 }

\* the addresses talloc can hand out for a struct signal_handler
Addrs == 1..MaxHandlers

\* struct signal_handler, at address addr
Handler(addr, subsys, cbfn, data) ==
    [addr |-> addr, subsys |-> subsys, cbfn |-> cbfn, data |-> data]

\* the addresses talloc has in use for the entries of the list
UsedAddrs(list) == { list[i].addr : i \in 1..Len(list) }

\* what talloc(tall_sigh_ctx2, struct signal_handler) can return: NULL, or a
\* chunk that is not in use
TallocResults(list) == {NULL} \cup (Addrs \ UsedAddrs(list))

\* what talloc_named_const(OTC_GLOBAL, 0, "osmo_signal") can return
TallocCtxResults == {NULL, CTX}

\* an insertion at the head of the list: llist_add
RegisterInsert_AtHead(list, h) == <<h>> \o list

\* an insertion that drops a triple the list already has
RegisterInsert_Dedup(list, h) ==
    IF \E i \in 1..Len(list) :
          /\ list[i].subsys = h.subsys
          /\ list[i].cbfn = h.cbfn
          /\ list[i].data = h.data
    THEN list
    ELSE Append(list, h)

\* llist_add_tail(&sig_data->entry, &signal_handler_list)
RegisterInsert(list, h) == Append(list, h)

\* osmo_signal_register_handler(subsys, cbfn, data), with the results of the
\* two allocations: ctx_alloc is tall_sigh_ctx2 once the context has been
\* created or found, ent_alloc the result of talloc for the entry
osmo_signal_register_handler(list, subsys, cbfn, data, ctx_alloc, ent_alloc) ==
    IF ctx_alloc = NULL
    THEN [rc |-> -ENOMEM, list |-> list, ctx |-> ctx_alloc]
    ELSE IF ent_alloc = NULL
    THEN [rc |-> -ENOMEM, list |-> list, ctx |-> ctx_alloc]
    ELSE [rc |-> 0, ctx |-> ctx_alloc,
          list |-> RegisterInsert(list, Handler(ent_alloc, subsys, cbfn, data))]

\* a comparison that forgets the user data
HandlerMatches_NoData(handler, subsys, cbfn, data) ==
    handler.cbfn = cbfn /\ subsys = handler.subsys

\* handler->cbfn == cbfn && handler->data == data && subsys == handler->subsys
HandlerMatches(handler, subsys, cbfn, data) ==
    handler.cbfn = cbfn /\ handler.data = data /\ subsys = handler.subsys

\* an unregistration that leaves the entry in the list
llist_del_Keep(list, i) == list

\* llist_del(&handler->entry); talloc_free(handler): the list without entry i
llist_del(list, i) == SubSeq(list, 1, i - 1) \o SubSeq(list, i + 1, Len(list))

\* the llist_for_each_entry loop of osmo_signal_unregister_handler, from entry i
RECURSIVE unregister_from(_, _, _, _, _)
unregister_from(list, i, subsys, cbfn, data) ==
    IF i > Len(list) THEN list
    ELSE IF HandlerMatches(list[i], subsys, cbfn, data)
    THEN llist_del(list, i)
    ELSE unregister_from(list, i + 1, subsys, cbfn, data)

\* osmo_signal_unregister_handler(subsys, cbfn, data)
osmo_signal_unregister_handler(list, subsys, cbfn, data) ==
    unregister_from(list, 1, subsys, cbfn, data)

\* (*handler->cbfn)(subsys, signal, handler->data, signal_data): the call, as
\* the callback sees it, and the entry it was made for
Invocation(handler, subsys, signal, signal_data) ==
    [handler |-> handler.addr, cbfn |-> handler.cbfn, subsys |-> subsys,
     signal |-> signal, data |-> handler.data, signal_data |-> signal_data]

\* a loop body that has lost its subsystem check
dispatch_visit_AllSubsys(log, handler, subsys, signal, signal_data) ==
    Append(log, Invocation(handler, subsys, signal, signal_data))

\* the body of the loop of osmo_signal_dispatch for one entry
dispatch_visit(log, handler, subsys, signal, signal_data) ==
    IF handler.subsys # subsys
    THEN log
    ELSE Append(log, Invocation(handler, subsys, signal, signal_data))

\* the llist_for_each_entry loop of osmo_signal_dispatch, from entry i, with
\* callbacks that leave the registry alone
RECURSIVE dispatch_from(_, _, _, _, _, _)
dispatch_from(list, i, subsys, signal, signal_data, log) ==
    IF i > Len(list) THEN log
    ELSE dispatch_from(list, i + 1, subsys, signal, signal_data,
                       dispatch_visit(log, list[i], subsys, signal, signal_data))

\* osmo_signal_dispatch(subsys, signal, signal_data): the invocations made
osmo_signal_dispatch(list, subsys, signal, signal_data) ==
    dispatch_from(list, 1, subsys, signal, signal_data, <<>>)

(***************************************************************************)
(* The signal-bus calls as actions.                                        *)
(***************************************************************************)
NoTriple == [subsys |-> 0, cbfn |-> "", data |-> ""]

SigCall(name, t, signal, signal_data, ctx_alloc, ent_alloc, rc) ==
    [name |-> name, subsys |-> t.subsys, cbfn |-> t.cbfn, data |-> t.data,
     signal |-> signal, signal_data |-> signal_data,
     ctx_alloc |-> ctx_alloc, ent_alloc |-> ent_alloc, rc |-> rc]

NoSigCall == SigCall("none", NoTriple, 0, "", NULL, NULL, 0)

TripleOf(h) == [subsys |-> h.subsys, cbfn |-> h.cbfn, data |-> h.data]

SigPre == [list |-> signal_handler_list, ctx |-> tall_sigh_ctx2]

Register ==
    /\ \E t \in RegTriples :
       \E ctx_alloc \in (IF tall_sigh_ctx2 = NULL THEN TallocCtxResults
                         ELSE {tall_sigh_ctx2}) :
       \E ent_alloc \in (IF ctx_alloc = NULL THEN {NULL}
                         ELSE TallocResults(signal_handler_list)) :
          LET r == osmo_signal_register_handler(signal_handler_list, t.subsys,
                       t.cbfn, t.data, ctx_alloc, ent_alloc)
          IN  /\ signal_handler_list' = r.list
              /\ tall_sigh_ctx2' = r.ctx
              /\ sig_call' = SigCall("register", t, 0, "", ctx_alloc, ent_alloc, r.rc)
              /\ reg_order' = IF r.rc = 0 THEN Append(reg_order, ent_alloc)
                              ELSE reg_order
              /\ net_regs' = IF r.rc = 0
                             THEN [net_regs EXCEPT ![t] = @ + 1]
                             ELSE net_regs
    /\ sig_pre' = SigPre
    /\ cb_log' = <<>>
    /\ UNCHANGED <<dispatch, env_vars, exec_vars>>

Unregister ==
    /\ \E t \in Triples :
          LET list == osmo_signal_unregister_handler(signal_handler_list,
                          t.subsys, t.cbfn, t.data)
              found == \E i \in 1..Len(signal_handler_list) :
                          TripleOf(signal_handler_list[i]) = t
              Alive(a) == a \in UsedAddrs(list)
          IN  /\ signal_handler_list' = list
              /\ sig_call' = SigCall("unregister", t, 0, "", NULL, NULL, 0)
              /\ reg_order' = SelectSeq(reg_order, Alive)
              /\ net_regs' = IF found THEN [net_regs EXCEPT ![t] = @ - 1]
                             ELSE net_regs
    /\ sig_pre' = SigPre
    /\ cb_log' = <<>>
    /\ UNCHANGED <<tall_sigh_ctx2, dispatch, env_vars, exec_vars>>

Dispatch ==
    /\ \E subsys \in Subsys, signal \in Signals, signal_data \in SignalData :
          /\ cb_log' = osmo_signal_dispatch(signal_handler_list, subsys, signal,
                                            signal_data)
          /\ sig_call' = SigCall("dispatch",
                                 [subsys |-> subsys, cbfn |-> "", data |-> ""],
                                 signal, signal_data, NULL, NULL, 0)
    /\ sig_pre' = SigPre
    /\ UNCHANGED <<signal_handler_list, tall_sigh_ctx2, reg_order, net_regs,
                   dispatch, env_vars, exec_vars>>

(***************************************************************************)
(* osmo_signal_dispatch step by step, with callbacks that call             *)
(* osmo_signal_register_handler and osmo_signal_unregister_handler.        *)
(***************************************************************************)
\* what a callback can return
CbResults == {0, -1}

\* the triples a callback registers: two callbacks of one subsystem
CbTriples == { t \in RegTriples : t.subsys = 1 /\ t.data = "d1" }

\* the triples registered before the dispatch: those and one of another
\* subsystem
InitTriples == { t \in RegTriples : t.data = "d1" }

\* the registry calls a callback makes, each at most once per invocation
CbCalls == {"register", "unregister"}

\* what talloc returns to a callback: NULL, or a chunk that is not in use
\* (which one makes no difference to the loop: the lowest)
CbTallocResults(list) ==
    {NULL} \cup { a \in TallocResults(list) :
                    a # NULL /\ \A b \in TallocResults(list) \ {NULL} : a <= b }

\* the position of the entry at address a in the list
IndexOf(list, a) == CHOOSE i \in 1..Len(list) : list[i].addr = a

NoDispatch ==
    [pc |-> "idle", cur |-> NULL, cur_freed |-> FALSE,
     subsys |-> 0, signal |-> 0, signal_data |-> "",
     inv |-> <<>>, ops |-> {}, last_rc |-> 0,
     invoked |-> {}, removed_ahead |-> FALSE,
     mutated |-> FALSE, unreg_own |-> FALSE, undefined |-> FALSE]

\* the cursor of llist_for_each_entry set to the first entry, or the loop left
\* at once when the list is empty
dispatch_first(list, d) ==
    IF list = <<>> THEN [d EXCEPT !.pc = "done"]
    ELSE [d EXCEPT !.pc = "visit", !.cur = list[1].addr]

\* a loop that stops at the first callback that reports a failure
dispatch_next_StopOnError(list, d) ==
    IF d.last_rc # 0 THEN {[d EXCEPT !.pc = "done"]}
    ELSE LET i == IndexOf(list, d.cur)
         IN  IF i = Len(list) THEN {[d EXCEPT !.pc = "done"]}
             ELSE {[d EXCEPT !.pc = "visit", !.cur = list[i + 1].addr]}

\* handler = llist_entry(handler->entry.next, ...): the step of
\* llist_for_each_entry.  When the entry the cursor points to has been removed
\* and freed, the read of its link is undefined: the process crashes, or the
\* loop ends, or it goes on at some entry of the list.
dispatch_next(list, d) ==
    IF d.cur \in UsedAddrs(list) /\ ~d.cur_freed
    THEN LET i == IndexOf(list, d.cur)
         IN  IF i = Len(list) THEN {[d EXCEPT !.pc = "done"]}
             ELSE {[d EXCEPT !.pc = "visit", !.cur = list[i + 1].addr]}
    ELSE { [d EXCEPT !.pc = "crashed", !.undefined = TRUE],
           [d EXCEPT !.pc = "done", !.undefined = TRUE] }
         \cup { [d EXCEPT !.pc = "visit", !.cur = a, !.cur_freed = FALSE,
                          !.undefined = TRUE] : a \in UsedAddrs(list) }

\* osmo_signal_dispatch(subsys, signal, signal_data) is called
StartDispatch ==
    /\ dispatch.pc = "idle"
    /\ \E subsys \in Subsys, signal \in {10}, signal_data \in SignalData :
          dispatch' = dispatch_first(signal_handler_list,
                          [NoDispatch EXCEPT !.subsys = subsys,
                                             !.signal = signal,
                                             !.signal_data = signal_data])
    /\ UNCHANGED <<signal_handler_list, tall_sigh_ctx2, sig_call, sig_pre,
                   cb_log, reg_order, net_regs, env_vars, exec_vars>>

\* the loop body for the entry under the cursor: skip it, or call its callback
Visit ==
    /\ dispatch.pc = "visit"
    /\ LET handler == signal_handler_list[IndexOf(signal_handler_list,
                                                  dispatch.cur)]
           inv == dispatch_visit(<<>>, handler, dispatch.subsys,
                                 dispatch.signal, dispatch.signal_data)
       IN  dispatch' =
              IF inv = <<>>
              THEN [dispatch EXCEPT !.pc = "advance", !.inv = <<>>,
                                    !.ops = {}, !.last_rc = 0,
                                    !.unreg_own = FALSE]
              ELSE [dispatch EXCEPT !.pc = "in_callback", !.inv = inv,
                                    !.ops = {}, !.last_rc = 0,
                                    !.unreg_own = FALSE,
                                    !.invoked = IF dispatch.mutated THEN @
                                                ELSE @ \cup {handler.addr}]
    /\ UNCHANGED <<signal_handler_list, tall_sigh_ctx2, sig_call, sig_pre,
                   cb_log, reg_order, net_regs, env_vars, exec_vars>>

\* the running callback calls osmo_signal_register_handler
CbRegister ==
    /\ dispatch.pc = "in_callback"
    /\ "register" \in CbCalls \ dispatch.ops
    /\ \E t \in CbTriples :
       \E ent_alloc \in CbTallocResults(signal_handler_list) :
          LET r == osmo_signal_register_handler(signal_handler_list, t.subsys,
                       t.cbfn, t.data, tall_sigh_ctx2, ent_alloc)
          IN  /\ signal_handler_list' = r.list
              /\ reg_order' = IF r.rc = 0 THEN Append(reg_order, ent_alloc)
                              ELSE reg_order
              /\ net_regs' = IF r.rc = 0
                             THEN [net_regs EXCEPT ![t] = @ + 1]
                             ELSE net_regs
              /\ dispatch' = [dispatch EXCEPT
                                !.ops = @ \cup {"register"},
                                !.mutated = @ \/ r.rc = 0,
                                !.invoked = IF r.rc = 0 THEN {} ELSE @]
    /\ UNCHANGED <<tall_sigh_ctx2, sig_call, sig_pre, cb_log, env_vars,
                   exec_vars>>

\* the running callback calls osmo_signal_unregister_handler
CbUnregister ==
    /\ dispatch.pc = "in_callback"
    /\ "unregister" \in CbCalls \ dispatch.ops
    /\ \E t \in RegTriples :
          LET list == osmo_signal_unregister_handler(signal_handler_list,
                          t.subsys, t.cbfn, t.data)
              found == \E i \in 1..Len(signal_handler_list) :
                          TripleOf(signal_handler_list[i]) = t
              Alive(a) == a \in UsedAddrs(list)
              ahead == \E i \in 1..Len(signal_handler_list) :
                          /\ ~Alive(signal_handler_list[i].addr)
                          /\ ~dispatch.cur_freed
                          /\ i > IndexOf(signal_handler_list, dispatch.cur)
                          /\ signal_handler_list[i].subsys = dispatch.subsys
                          /\ net_regs[t] = 1
              own == [subsys |-> dispatch.inv[1].subsys,
                      cbfn |-> dispatch.inv[1].cbfn,
                      data |-> dispatch.inv[1].data]
          IN  /\ signal_handler_list' = list
              /\ reg_order' = SelectSeq(reg_order, Alive)
              /\ net_regs' = IF found THEN [net_regs EXCEPT ![t] = @ - 1]
                             ELSE net_regs
              /\ dispatch' = [dispatch EXCEPT
                                !.ops = @ \cup {"unregister"},
                                !.mutated = @ \/ list # signal_handler_list,
                                !.unreg_own = @ \/ t = own,
                                !.removed_ahead = @ \/ ahead,
                                !.invoked = IF found THEN {} ELSE @,
                                !.cur_freed = @ \/ ~Alive(dispatch.cur)]
    /\ UNCHANGED <<tall_sigh_ctx2, sig_call, sig_pre, cb_log, env_vars,
                   exec_vars>>

\* the callback returns; its result is dropped by the loop body
CbReturn ==
    /\ dispatch.pc = "in_callback"
    /\ \E rc \in CbResults :
          dispatch' = [dispatch EXCEPT !.pc = "advance", !.last_rc = rc]
    /\ UNCHANGED <<signal_handler_list, tall_sigh_ctx2, sig_call, sig_pre,
                   cb_log, reg_order, net_regs, env_vars, exec_vars>>

\* the loop goes to the next entry, or ends
Advance ==
    /\ dispatch.pc = "advance"
    /\ dispatch' \in dispatch_next(signal_handler_list, dispatch)
    /\ UNCHANGED <<signal_handler_list, tall_sigh_ctx2, sig_call, sig_pre,
                   cb_log, reg_order, net_regs, env_vars, exec_vars>>

(***************************************************************************)
(* exec.c: osmo_close_all_fds_above and osmo_system_nowait                 *)
(***************************************************************************)
\* the sets of descriptors a process may have open when it calls: standard
\* input, output and error with any of 5 and 7, or standard input closed
FdSets == { {0, 1, 2} \cup S : S \in SUBSET {5, 7} } \cup { {1, 2, 5} }

\* the values osmo_close_all_fds_above is called with directly
Thresholds == {0, StdioMax, 5}

\* what fork() returns in the parent for a child it created
Pids == {4711}

Commands == {"true", "exit 1"}

\* what fork() returns when it fails
ForkFailed == -1

\* ARRAY_SIZE(new_env), scaled to the array of the model
NewEnvLen == 4

\* the descriptor open() hands out: the lowest one that is not open
LowestFree(fds) ==
    CHOOSE n \in 0..Cardinality(fds) :
        n \notin fds /\ \A m \in 0..(n - 1) : m \in fds

\* what close(fd) can do: succeed, or fail with the descriptor released or not
CloseResults == {"ok", "fail_closed", "fail_open"}

NoSweep ==
    [keep |-> 0, fds0 |-> {}, dir |-> NoFd, todo |-> {}, attempted |-> {},
     failed |-> {}, rc |-> 0]

NoLaunch ==
    [fork_rc |-> 0, command |-> "", addl_null |-> TRUE, addl |-> <<>>,
     environ_null |-> TRUE, environ |-> <<>>,
     path |-> "", argv |-> <<>>, envp |-> <<>>]

\* dir = opendir("/proc/self/fd"), ok or not
sweep_opendir(sw, p, ok) ==
    IF ~ok
    THEN [sw |-> [sw EXCEPT !.rc = -ENODEV],
          p |-> [p EXCEPT !.pc = "sweep_ret", !.log = @ \cup {"opendir"}]]
    ELSE LET d == LowestFree(p.fds)
         IN  [sw |-> [sw EXCEPT !.dir = d,
                                \* the names of the directory: ".", ".." (atoi
                                \* gives 0 for both) and every open descriptor
                                !.todo = p.fds \cup {d} \cup {0}],
              p |-> [p EXCEPT !.pc = "readdir", !.fds = @ \cup {d}]]

\* a loop that also closes the descriptor it was told to keep
SweepKeeps_OffByOne(fd, keep, dir) == fd < keep \/ fd = dir

\* if (fd <= last_fd_to_keep) continue; if (fd == dirfd(dir)) continue;
SweepKeeps(fd, keep, dir) == fd <= keep \/ fd = dir

\* rc = close(fd); if (rc) LOGP(...)
sweep_close(sw, p, fd, res) ==
    LET failing == res # "ok" \/ fd \notin p.fds
        released == res # "fail_open"
    IN  [sw |-> [sw EXCEPT !.attempted = @ \cup {fd},
                           !.failed = IF failing THEN @ \cup {fd} ELSE @],
         p |-> [p EXCEPT !.fds = IF released THEN @ \ {fd} ELSE @,
                         !.log = IF failing THEN @ \cup {"close"} ELSE @]]

\* one turn of while ((ent = readdir(dir))), for the entry atoi turns into fd
sweep_readdir(sw, p, fd, res) ==
    LET sw1 == [sw EXCEPT !.todo = @ \ {fd}]
    IN  IF SweepKeeps(fd, sw.keep, sw.dir)
        THEN [sw |-> sw1, p |-> p]
        ELSE sweep_close(sw1, p, fd, res)

\* readdir returned NULL: closedir(dir); return 0;
sweep_closedir(sw, p) ==
    [sw |-> [sw EXCEPT !.rc = 0, !.dir = NoFd],
     p |-> [p EXCEPT !.pc = "sweep_ret", !.fds = @ \ {sw.dir}]]

\* a parent that reports success instead of the child
ParentReturn_Zero(rc) == 0

\* } else { return rc; }
ParentReturnValue(rc) == rc

FilterArgs(out_len, in_null, in, wl) ==
    EnvArgs("filter", FALSE, out_len, in_null, in, FALSE, wl)

AppendArgs(out_len, in_null, in) ==
    EnvArgs("append", FALSE, out_len, in_null, in, TRUE, <<>>)

\* an environment handed on without the filter
new_env_build_Unfiltered(mem, environ_null, environ, addl_null, addl) ==
    LET r1 == osmo_environment_append([mem EXCEPT ![0] = NULL],
                  AppendArgs(NewEnvLen, environ_null, environ))
    IN  [filtered |-> r1,
         appended |-> osmo_environment_append(r1.mem,
                          AppendArgs(NewEnvLen, addl_null, addl))]

\* osmo_environment_filter(new_env, ARRAY_SIZE(new_env), environ,
\*                         environment_whitelist);
\* osmo_environment_append(new_env, ARRAY_SIZE(new_env), addl_env);
new_env_build(mem, environ_null, environ, addl_null, addl) ==
    LET r1 == osmo_environment_filter(mem,
                  FilterArgs(NewEnvLen, environ_null, environ,
                             environment_whitelist))
    IN  [filtered |-> r1,
         appended |-> osmo_environment_append(r1.mem,
                          AppendArgs(NewEnvLen, addl_null, addl))]

\* the entries of a terminated array, as a list
RECURSIVE ListOf(_, _)
ListOf(mem, i) ==
    IF mem[i] = NULL THEN <<>> ELSE <<mem[i]>> \o ListOf(mem, i + 1)

(***************************************************************************)
(* The launcher and the sweep as actions.                                  *)
(***************************************************************************)
\* a direct call: osmo_close_all_fds_above(last_fd_to_keep)
CallCloseAll ==
    /\ parent.pc = "idle"
    /\ \E t \in Thresholds :
          sweep' = [sweep EXCEPT !.keep = t, !.fds0 = proc.fds]
    /\ parent' = [parent EXCEPT !.pc = "in_sweep"]
    /\ proc' = [proc EXCEPT !.pc = "opendir", !.mode = "direct"]
    /\ UNCHANGED <<launch, sig_vars, env_vars>>

\* a call: osmo_system_nowait(command, addl_env)
CallSystemNowait ==
    /\ parent.pc = "idle"
    /\ \E command \in Commands, addl_null \in BOOLEAN :
       \E addl \in (IF addl_null THEN {<<>>} ELSE SeqsUpTo(AddlPtr, MaxAdd)) :
          launch' = [launch EXCEPT !.command = command,
                                   !.addl_null = addl_null, !.addl = addl]
    /\ parent' = [parent EXCEPT !.pc = "fork"]
    /\ UNCHANGED <<proc, sweep, sig_vars, env_vars>>

\* rc = fork(); the child, when there is one, takes the rc == 0 branch and
\* calls osmo_close_all_fds_above(2)
Fork ==
    /\ parent.pc = "fork"
    /\ \E rc \in {ForkFailed} \cup Pids :
          /\ launch' = [launch EXCEPT !.fork_rc = rc]
          /\ IF rc = ForkFailed
             THEN UNCHANGED <<proc, sweep>>
             ELSE /\ proc' = [proc EXCEPT !.pc = "opendir", !.mode = "child"]
                  /\ sweep' = [sweep EXCEPT !.keep = StdioMax, !.fds0 = proc.fds]
    /\ parent' = [parent EXCEPT !.pc = "forked"]
    /\ UNCHANGED <<sig_vars, env_vars>>

\* we are in the parent: return rc
ParentReturn ==
    /\ parent.pc = "forked"
    /\ parent' = [pc |-> "returned", rc |-> ParentReturnValue(launch.fork_rc)]
    /\ UNCHANGED <<proc, sweep, launch, sig_vars, env_vars>>

SweepOpendir ==
    /\ proc.pc = "opendir"
    /\ \E ok \in BOOLEAN :
          LET r == sweep_opendir(sweep, proc, ok)
          IN  sweep' = r.sw /\ proc' = r.p
    /\ UNCHANGED <<parent, launch, sig_vars, env_vars>>

SweepReaddir ==
    /\ proc.pc = "readdir"
    /\ sweep.todo # {}
    /\ \E fd \in sweep.todo, res \in CloseResults :
          LET r == sweep_readdir(sweep, proc, fd, res)
          IN  sweep' = r.sw /\ proc' = r.p
    /\ UNCHANGED <<parent, launch, sig_vars, env_vars>>

SweepClosedir ==
    /\ proc.pc = "readdir"
    /\ sweep.todo = {}
    /\ LET r == sweep_closedir(sweep, proc)
       IN  sweep' = r.sw /\ proc' = r.p
    /\ UNCHANGED <<parent, launch, sig_vars, env_vars>>

\* the direct caller gets the return code
SweepReturn ==
    /\ proc.pc = "sweep_ret" /\ proc.mode = "direct"
    /\ proc' = [proc EXCEPT !.pc = "done"]
    /\ parent' = [pc |-> "returned", rc |-> sweep.rc]
    /\ UNCHANGED <<sweep, launch, sig_vars, env_vars>>

\* the child drops the return code and builds the new environment
ChildBuildEnv ==
    /\ proc.pc = "sweep_ret" /\ proc.mode = "child"
    /\ \E environ_null \in BOOLEAN :
       \E environ \in (IF environ_null THEN {<<>>}
                       ELSE SeqsUpTo(EnvironPtr, MaxEnviron)) :
          LET r == new_env_build(out, environ_null, environ,
                                 launch.addl_null, launch.addl)
          IN  /\ out' = r.appended.mem
              /\ env_pre' = r.filtered.mem
              /\ env_call' = AppendArgs(NewEnvLen, launch.addl_null, launch.addl)
                                 @@ [rc |-> r.appended.rc,
                                     aborted |-> r.filtered.aborted
                                                    \/ r.appended.aborted,
                                     wr |-> r.appended.wr]
              /\ launch' = [launch EXCEPT !.environ_null = environ_null,
                                          !.environ = environ]
    /\ proc' = [proc EXCEPT !.pc = "exec"]
    /\ UNCHANGED <<parent, sweep, sig_vars>>

\* execle("/bin/sh", "sh", "-c", command, (char *) NULL, new_env) replaces the
\* process image
ChildExec ==
    /\ proc.pc = "exec"
    /\ proc' = [proc EXCEPT !.pc = "execed"]
    /\ launch' = [launch EXCEPT !.path = "/bin/sh",
                                !.argv = <<"sh", "-c", launch.command>>,
                                !.envp = ListOf(out, 0)]
    /\ UNCHANGED <<parent, sweep, sig_vars, env_vars>>

\* execle returned: LOGP(...); return -EIO; the child is back in the code
\* that called osmo_system_nowait
ChildExecFails ==
    /\ proc.pc = "exec"
    /\ proc' = [proc EXCEPT !.pc = "caller", !.rc = -EIO,
                            !.log = @ \cup {"exec"}]
    /\ UNCHANGED <<parent, sweep, launch, sig_vars, env_vars>>

ExecIdle ==
    /\ parent = [pc |-> "idle", rc |-> 0]
    /\ proc = [pc |-> "none", mode |-> "none", fds |-> {}, rc |-> 0, log |-> {}]
    /\ sweep = NoSweep
    /\ launch = NoLaunch

\* static LLIST_HEAD(signal_handler_list); static void *tall_sigh_ctx2;
SigIdle ==
    /\ signal_handler_list = <<>>
    /\ tall_sigh_ctx2 = NULL
    /\ sig_call = NoSigCall
    /\ sig_pre = [list |-> <<>>, ctx |-> NULL]
    /\ cb_log = <<>>
    /\ reg_order = <<>>
    /\ net_regs = [t \in Triples |-> 0]
    /\ dispatch = NoDispatch

EnvIdle ==
    /\ out = FreshArray
    /\ env_pre = FreshArray
    /\ env_call = NoEnvCall

Init == SigIdle /\ EnvIdle /\ ExecIdle

Next == Register \/ Unregister \/ Dispatch

Spec == Init /\ [][Next]_vars


InitFilter == SigIdle /\ EnvIdle /\ ExecIdle

InitAppend ==
    /\ SigIdle
    /\ ExecIdle
    /\ out \in { Populated(pre) : pre \in SeqsUpTo(Ptr, MaxPre) }
    /\ env_pre = out
    /\ env_call = NoEnvCall

SpecFilter == InitFilter /\ [][EnvFilter]_vars

SpecAppend == InitAppend /\ [][EnvAppend]_vars

\* a process with some descriptors open and a fresh new_env on its stack
InitExec ==
    /\ SigIdle
    /\ EnvIdle
    /\ parent = [pc |-> "idle", rc |-> 0]
    /\ proc \in { [pc |-> "none", mode |-> "none", fds |-> f, rc |-> 0,
                    log |-> {}] : f \in FdSets }
    /\ sweep = NoSweep
    /\ launch = NoLaunch

NextExec ==
    \/ CallCloseAll
    \/ CallSystemNowait
    \/ Fork
    \/ ParentReturn
    \/ SweepOpendir
    \/ SweepReaddir
    \/ SweepClosedir
    \/ SweepReturn
    \/ ChildBuildEnv
    \/ ChildExec
    \/ ChildExecFails

SpecExec == InitExec /\ [][NextExec]_vars

\* the registry after the successful registrations of regs, in that order
RegistryOf(regs) ==
    [i \in 1..Len(regs) |->
        Handler(i, regs[i].subsys, regs[i].cbfn, regs[i].data)]

\* a registry some registrations have filled, and no call in progress
InitReentrant ==
    /\ \E regs \in SeqsUpTo(InitTriples, MaxInitRegs) :
          /\ signal_handler_list = RegistryOf(regs)
          /\ tall_sigh_ctx2 = IF regs = <<>> THEN NULL ELSE CTX
          /\ reg_order = [i \in 1..Len(regs) |-> i]
          /\ net_regs = [t \in Triples |->
                            Cardinality({ i \in 1..Len(regs) : regs[i] = t })]
    /\ sig_call = NoSigCall
    /\ sig_pre = [list |-> <<>>, ctx |-> NULL]
    /\ cb_log = <<>>
    /\ dispatch = NoDispatch
    /\ EnvIdle
    /\ ExecIdle

NextReentrant ==
    \/ StartDispatch
    \/ Visit
    \/ CbRegister
    \/ CbUnregister
    \/ CbReturn
    \/ Advance

SpecReentrant == InitReentrant /\ [][NextReentrant]_vars

\* the process keeps running: a step that can be taken is taken
FairReentrant == SpecReentrant /\ WF_vars(NextReentrant)

(***************************************************************************)
(* What the claims about signal.c speak of.                                *)
(***************************************************************************)
\* the entry of the registry at address a
EntryAt(a) ==
    signal_handler_list[CHOOSE i \in 1..Len(signal_handler_list) :
                            signal_handler_list[i].addr = a]

\* how many entries of list carry triple t
CountOf(list, t) == Cardinality({ i \in 1..Len(list) : TripleOf(list[i]) = t })

\* how many invocations of the log went to callback and user data of triple t
DeliveriesTo(t) ==
    Cardinality({ i \in 1..Len(cb_log) :
                    /\ cb_log[i].cbfn = t.cbfn
                    /\ cb_log[i].data = t.data
                    /\ cb_log[i].subsys = t.subsys })

CallTriple ==
    [subsys |-> sig_call.subsys, cbfn |-> sig_call.cbfn, data |-> sig_call.data]

\* C1: after any sequence of register and unregister calls, a dispatch for
\* subsys invokes the callbacks of exactly the entries now in the registry
\* whose subsystem is subsys, oldest registration first, each once, with
\* (subsys, signal, the entry's user data, signal_data); no entry of another
\* subsystem is invoked.
C1_DispatchInvokes ==
    (sig_call.name = "dispatch") =>
        LET InSubsys(a) == EntryAt(a).subsys = sig_call.subsys
            due == SelectSeq(reg_order, InSubsys)
        IN  /\ Len(reg_order) = Len(signal_handler_list)
            /\ { reg_order[i] : i \in 1..Len(reg_order) }
                  = UsedAddrs(signal_handler_list)
            /\ signal_handler_list = sig_pre.list
            /\ Len(cb_log) = Len(due)
            /\ \A i \in 1..Len(due) :
                  cb_log[i] = [handler |-> due[i],
                               cbfn |-> EntryAt(due[i]).cbfn,
                               subsys |-> sig_call.subsys,
                               signal |-> sig_call.signal,
                               data |-> EntryAt(due[i]).data,
                               signal_data |-> sig_call.signal_data]

\* C1 witness: a registry of three entries whose addresses are not in
\* allocation order (an entry was unregistered and another registered), the
\* middle one of another subsystem: the dispatch invokes the first and the last
C1_Witness ==
    /\ sig_call.name = "dispatch"
    /\ Len(signal_handler_list) = 3
    /\ signal_handler_list[1].subsys = sig_call.subsys
    /\ signal_handler_list[2].subsys # sig_call.subsys
    /\ signal_handler_list[3].subsys = sig_call.subsys
    /\ signal_handler_list[1].addr > signal_handler_list[3].addr
    /\ Len(cb_log) = 2
    /\ cb_log[1].handler = signal_handler_list[1].addr
    /\ cb_log[2].handler = signal_handler_list[3].addr

\* C2: osmo_signal_unregister_handler removes the first entry, in list order,
\* that matches subsystem, callback and data, and only that one; when no entry
\* matches all three the registry is unchanged; all other entries, later
\* duplicates included, stay in the order they had.
C2_UnregisterFirstMatch ==
    (sig_call.name = "unregister") =>
        LET pre == sig_pre.list
            M == { i \in 1..Len(pre) : TripleOf(pre[i]) = CallTriple }
        IN  IF M = {}
            THEN signal_handler_list = pre
            ELSE LET f == CHOOSE i \in M : \A j \in M : i <= j
                 IN  signal_handler_list =
                        [i \in 1..(Len(pre) - 1) |->
                            IF i < f THEN pre[i] ELSE pre[i + 1]]

\* C2 witness: the triple is registered first and third, the second entry
\* matches it in two fields only: the first entry goes, the other two stay
C2_Witness ==
    /\ sig_call.name = "unregister"
    /\ Len(sig_pre.list) = 3
    /\ TripleOf(sig_pre.list[1]) = CallTriple
    /\ TripleOf(sig_pre.list[3]) = CallTriple
    /\ sig_pre.list[2].subsys = sig_call.subsys
    /\ sig_pre.list[2].cbfn = sig_call.cbfn
    /\ sig_pre.list[2].data # sig_call.data
    /\ signal_handler_list = <<sig_pre.list[2], sig_pre.list[3]>>

\* C3: registrations are never deduplicated: the registry holds, for every
\* triple, as many entries as the triple was registered minus the unregister
\* calls for it that found a match, and a dispatch for its subsystem invokes
\* its callback once per such entry.
C3_NoDedup ==
    /\ \A t \in Triples : CountOf(signal_handler_list, t) = net_regs[t]
    /\ (sig_call.name = "dispatch") =>
          \A t \in Triples :
             t.subsys = sig_call.subsys => DeliveriesTo(t) = net_regs[t]

\* C3 witness: a triple registered twice is delivered to twice by one dispatch
C3_Witness ==
    /\ sig_call.name = "dispatch"
    /\ \E t \in Triples :
          /\ net_regs[t] = 2
          /\ CountOf(signal_handler_list, t) = 2
          /\ DeliveriesTo(t) = 2

\* C4: osmo_signal_register_handler returns -ENOMEM when the allocation
\* context or the entry cannot be allocated and then leaves the registry as it
\* was; otherwise it returns 0 and the new entry is the last of the registry,
\* after all the entries that were there.
C4_RegisterOom ==
    (sig_call.name = "register") =>
        IF sig_call.ctx_alloc = NULL \/ sig_call.ent_alloc = NULL
        THEN /\ sig_call.rc = -ENOMEM
             /\ signal_handler_list = sig_pre.list
        ELSE /\ sig_call.rc = 0
             /\ Len(signal_handler_list) = Len(sig_pre.list) + 1
             /\ \A i \in 1..Len(sig_pre.list) :
                   signal_handler_list[i] = sig_pre.list[i]
             /\ signal_handler_list[Len(signal_handler_list)] =
                   [addr |-> sig_call.ent_alloc, subsys |-> sig_call.subsys,
                    cbfn |-> sig_call.cbfn, data |-> sig_call.data]

\* C4 witness: the entry cannot be allocated while the registry holds two
\* entries: -ENOMEM, and the two entries are still the registry
C4_Witness ==
    /\ sig_call.name = "register"
    /\ sig_pre.ctx # NULL
    /\ sig_call.ent_alloc = NULL
    /\ Len(sig_pre.list) = 2
    /\ sig_call.rc = -ENOMEM
    /\ signal_handler_list = sig_pre.list

(***************************************************************************)
(* What the claims about exec.c speak of, stated without the operators of  *)
(* the model above.                                                        *)
(***************************************************************************)
Take(s, n) == SubSeq(s, 1, IF n < Len(s) THEN n ELSE Len(s))

HasEq(p) == \E i \in 1..Len(Str[p]) : Str[p][i] = "="

FirstEq(p) ==
    CHOOSE i \in 1..Len(Str[p]) :
        Str[p][i] = "=" /\ \A j \in 1..(i - 1) : Str[p][j] # "="

\* the text before the first '=' of entry p, for every entry that has one
KeyOf == [p \in { q \in Ptr : HasEq(q) } |-> SubSeq(Str[p], 1, FirstEq(p) - 1)]

\* entries the filter never looks up: no '=', or a key of TmpSize characters or more
Skipped == { p \in Ptr : ~HasEq(p) \/ Len(KeyOf[p]) >= TmpSize }

\* entry p has a key that is one of the names of whitelist wl
Admitted(p, wl) ==
    /\ p \notin Skipped
    /\ \E n \in 1..Len(wl) : wl[n] = KeyOf[p]

AdmittedOf(in, wl) ==
    LET Test(p) == Admitted(p, wl) IN SelectSeq(in, Test)

NotSkippedOf(in) ==
    LET Test(p) == p \notin Skipped IN SelectSeq(in, Test)

\* the array holds exactly the entries of list and then the sentinel
HoldsList(mem, list) ==
    /\ \A i \in 1..Len(list) : mem[i - 1] = list[i]
    /\ mem[Len(list)] = NULL

\* the index of the first sentinel of an array that has one
SentinelOf(mem) ==
    CHOOSE k \in Slots : mem[k] = NULL /\ \A j \in 0..(k - 1) : mem[j] # NULL

ValidFilterCall ==
    /\ env_call.name = "filter"
    /\ ~env_call.out_null /\ env_call.out_len >= 1 /\ ~env_call.wl_null

\* C5: for a non-null input environment and valid arguments the output of
\* osmo_environment_filter is, in input order, the input entries that have a
\* '=', a key shorter than the staging buffer and exactly equal to a whitelist
\* name, cut to the first out_len-1 of them and followed by the sentinel; and
\* the output is the one the call gives with the skipped entries (no '=', or
\* an over-long key) taken out of the input.
C5_FilterOutput ==
    (ValidFilterCall /\ ~env_call.in_null) =>
        /\ ~env_call.aborted
        /\ HoldsList(out, Take(AdmittedOf(env_call.in, env_call.wl),
                               env_call.out_len - 1))
        /\ out = osmo_environment_filter(env_pre,
                     [env_call EXCEPT !.in = NotSkippedOf(env_call.in)]).mem

\* C5 witness: an input with an entry without '=', an entry with an over-long
\* whitelisted key and an admitted entry; only the admitted one is in the output
C5_Witness ==
    /\ ValidFilterCall /\ ~env_call.in_null
    /\ env_call.in = <<4, 5, 1>>
    /\ \E n \in 1..Len(env_call.wl) : env_call.wl[n] = Rep("L", TmpSize)
    /\ env_call.out_len = 3
    /\ out[0] = 1 /\ out[1] = NULL

\* C6: a valid call of osmo_environment_filter never fails its assertion,
\* writes no slot at or above out_len and returns the sentinel's index plus
\* one; with more than out_len-1 whitelisted entries in the input it writes the
\* first out_len-1 of them and the sentinel and returns out_len.
C6_FilterTruncates ==
    (ValidFilterCall /\ ~env_call.in_null) =>
        LET adm == AdmittedOf(env_call.in, env_call.wl)
            N == env_call.out_len
        IN  /\ ~env_call.aborted
            /\ \A i \in env_call.wr : i < N
            /\ \A i \in Slots : i >= N => out[i] = env_pre[i]
            /\ env_call.rc >= 1
            /\ out[env_call.rc - 1] = NULL
            /\ \A j \in 0..(env_call.rc - 2) : out[j] # NULL
            /\ Len(adm) > N - 1 =>
                  /\ env_call.rc = N
                  /\ env_call.wr = 0..(N - 1)
                  /\ HoldsList(out, SubSeq(adm, 1, N - 1))

\* C6 witness: capacity 2 and three whitelisted entries: one entry and the sentinel
C6_Witness ==
    /\ ValidFilterCall /\ ~env_call.in_null
    /\ env_call.out_len = 2
    /\ Len(AdmittedOf(env_call.in, env_call.wl)) = 3
    /\ env_call.rc = 2
    /\ out[0] = env_call.in[1] /\ out[1] = NULL /\ out[2] = Junk

\* C7: osmo_environment_filter with a null output buffer, a capacity of zero or
\* a null whitelist returns -EINVAL and writes nothing, whatever the other
\* arguments are.
C7_FilterInvalidArgs ==
    (/\ env_call.name = "filter"
     /\ (env_call.out_null \/ env_call.out_len = 0 \/ env_call.wl_null)) =>
        /\ env_call.rc = -EINVAL
        /\ ~env_call.aborted
        /\ env_call.wr = {}
        /\ out = env_pre

\* C7 witness: a null whitelist together with a null input environment
C7_Witness ==
    /\ env_call.name = "filter"
    /\ env_call.wl_null /\ env_call.in_null
    /\ ~env_call.out_null /\ env_call.out_len = 4
    /\ env_call.rc = -EINVAL

\* C8: osmo_environment_filter with a null input environment and otherwise
\* valid arguments writes only the sentinel at index 0 and returns 1, for every
\* whitelist and every capacity >= 1.
C8_FilterNullInput ==
    (ValidFilterCall /\ env_call.in_null) =>
        /\ env_call.rc = 1
        /\ ~env_call.aborted
        /\ env_call.wr = {0}
        /\ out[0] = NULL
        /\ \A i \in Slots : i > 0 => out[i] = env_pre[i]

\* C8 witness: filter(out, 4, NULL, whitelist) with a whitelist that has names
C8_Witness ==
    /\ ValidFilterCall /\ env_call.in_null
    /\ env_call.out_len = 4
    /\ Len(env_call.wl) > 0
    /\ env_call.rc = 1 /\ out[0] = NULL

ValidAppendCall ==
    /\ env_call.name = "append"
    /\ ~env_call.out_null /\ env_call.out_len >= 1

Min(a, b) == IF a < b THEN a ELSE b

\* C9: on an array holding k entries and the sentinel, k < out_len,
\* osmo_environment_append with a non-null second list keeps the k entries in
\* place, appends the second list's entries in order until out_len-1 entries
\* are stored, writes the sentinel after the last one, writes no slot at or
\* above out_len and returns a count, not an error, also when entries were
\* dropped.
C9_AppendAppends ==
    (/\ ValidAppendCall /\ ~env_call.in_null
     /\ SentinelOf(env_pre) < env_call.out_len) =>
        LET k == SentinelOf(env_pre)
            n == Min(Len(env_call.in), env_call.out_len - 1 - k)
        IN  /\ ~env_call.aborted
            /\ env_call.rc > 0
            /\ \A i \in 0..(k - 1) : out[i] = env_pre[i]
            /\ \A j \in 1..n : out[k + j - 1] = env_call.in[j]
            /\ out[k + n] = NULL
            /\ \A i \in env_call.wr : i < env_call.out_len
            /\ \A i \in Slots : i >= env_call.out_len => out[i] = env_pre[i]

\* C9 witness: two existing entries, two new ones, capacity 5: four entries
\* and the terminator
C9_Witness ==
    /\ ValidAppendCall /\ ~env_call.in_null
    /\ SentinelOf(env_pre) = 2 /\ Len(env_call.in) = 2
    /\ env_call.out_len = 5
    /\ out[0] = env_pre[0] /\ out[1] = env_pre[1]
    /\ out[2] = env_call.in[1] /\ out[3] = env_call.in[2]
    /\ out[4] = NULL
    /\ env_pre[0] # env_pre[1] /\ env_call.in[1] # env_call.in[2]

\* C10: osmo_environment_append with a null second list leaves every existing
\* entry of the first list in place and the sentinel at the position it had.
C10_AppendNullKeeps ==
    (env_call.name = "append" /\ env_call.in_null /\ ~env_call.out_null) =>
        LET k == SentinelOf(env_pre)
        IN  /\ ~env_call.aborted
            /\ \A i \in 0..(k - 1) : out[i] = env_pre[i]
            /\ out[k] = NULL
            /\ SentinelOf(out) = k

\* C10 witness: a null second list appended to an array of two entries
C10_Witness ==
    /\ ValidAppendCall /\ env_call.in_null
    /\ SentinelOf(env_pre) = 2
    /\ out[0] = env_pre[0] /\ out[1] = env_pre[1] /\ out[2] = NULL

\* C20: in every successful call of osmo_environment_append on an array that
\* fits its capacity, with a null or a non-null second list, the returned count is the index of the sentinel plus
\* one, so that a null second list returns the count an empty second list
\* returns for the same array.
C20_AppendCountsSentinel ==
    (/\ ValidAppendCall /\ ~env_call.aborted /\ env_call.rc >= 0
     /\ SentinelOf(env_pre) < env_call.out_len) =>
        /\ env_call.rc = SentinelOf(out) + 1
        /\ env_call.in_null =>
              env_call.rc =
                 osmo_environment_append(env_pre,
                     [env_call EXCEPT !.in_null = FALSE, !.in = <<>>]).rc

(***************************************************************************)
(* Claims about osmo_close_all_fds_above and osmo_system_nowait.           *)
(***************************************************************************)
LaunchCall == proc.mode # "direct" /\ parent.pc \in {"forked", "returned"}

\* the child has not done any of its work
ChildUntouched ==
    /\ proc.pc = "none" /\ proc.log = {}
    /\ sweep = NoSweep
    /\ env_call = NoEnvCall /\ out = FreshArray
    /\ launch.path = "" /\ launch.envp = <<>>

\* C11: in the parent osmo_system_nowait returns right after the fork the
\* value fork gave it, the non-negative identifier of the child, and its return
\* never waits for a step of the child; when the fork fails it returns a
\* negative value and no sweep, no environment construction and no exec
\* happens.
C11_ParentReturnsPid ==
    /\ (LaunchCall /\ parent.pc = "forked") => ENABLED ParentReturn
    /\ (LaunchCall /\ parent.pc = "returned") =>
          /\ parent.rc = launch.fork_rc
          /\ launch.fork_rc \in Pids => parent.rc >= 0
          /\ launch.fork_rc = ForkFailed => parent.rc < 0
    /\ (LaunchCall /\ launch.fork_rc = ForkFailed) => ChildUntouched

\* the parent has its return value while the child has not yet started the sweep
C11_Witness ==
    /\ LaunchCall /\ parent.pc = "returned" /\ parent.rc \in Pids
    /\ proc.pc = "opendir" /\ proc.mode = "child"

\* the key of an inherited entry is one of the names of environment_whitelist
InheritedAllowed(p) ==
    /\ HasEq(p)
    /\ \E n \in 1..Len(environment_whitelist) :
          environment_whitelist[n] = SubSeq(Str[p], 1, FirstEq(p) - 1)

AllowedOf(environ) ==
    LET Test(p) == InheritedAllowed(p) IN SelectSeq(environ, Test)

Range(s) == { s[i] : i \in 1..Len(s) }

\* C12: the environment the child hands to the shell is the whitelisted
\* entries of the inherited environment, in order, followed by the entries of
\* addl_env, cut to the capacity of new_env; every entry of it is an inherited
\* entry with a whitelisted key or an entry of addl_env, and the program run is
\* /bin/sh with the arguments sh, -c and the command.
C12_ChildEnvironment ==
    proc.pc = "execed" =>
        /\ launch.envp =
              Take(AllowedOf(launch.environ) \o launch.addl, NewEnvLen - 1)
        /\ \A p \in Range(launch.envp) :
              \/ p \in Range(launch.addl)
              \/ p \in Range(launch.environ) /\ InheritedAllowed(p)
        /\ launch.path = "/bin/sh"
        /\ launch.argv = <<"sh", "-c", launch.command>>

\* an inherited environment with a whitelisted and a non-whitelisted entry, and
\* an additional entry
C12_Witness ==
    /\ proc.pc = "execed"
    /\ \E p \in Range(launch.environ) : InheritedAllowed(p)
    /\ \E p \in Range(launch.environ) :
          ~InheritedAllowed(p) /\ p \notin Range(launch.addl)
    /\ launch.addl # <<>>
    /\ Len(launch.envp) = 2

\* C13: at the moment the child transfers control to the replacement
\* program, no descriptor above 2 is open in it, given that no close call
\* failed.
C13_NoFdAboveStdioAtExec ==
    (proc.pc = "execed" /\ sweep.failed = {}) =>
        \A fd \in proc.fds : fd <= StdioMax

\* the sweep has returned and could open the directory
SweepCompleted ==
    /\ proc.pc \notin {"none", "opendir", "readdir"}
    /\ "opendir" \notin proc.log

\* C14: osmo_close_all_fds_above(t) never calls close on a descriptor less
\* than or equal to t; when the directory could be opened it has, on return,
\* called close on every descriptor above t that was open, every descriptor at
\* or below t is still open, every descriptor above t whose close released it
\* is closed whether or not another close failed, and it returns 0; with
\* 0,1,2,5,7 open, t = 2 and no failing close exactly 0,1,2 remain open.
C14_SweepClosesAbove ==
    /\ \A fd \in sweep.attempted : fd > sweep.keep
    /\ SweepCompleted =>
          /\ sweep.attempted = { fd \in sweep.fds0 : fd > sweep.keep }
          /\ \A fd \in sweep.fds0 : fd <= sweep.keep => fd \in proc.fds
          /\ proc.fds \subseteq sweep.fds0
          /\ \A fd \in proc.fds : fd > sweep.keep => fd \in sweep.failed
          /\ sweep.rc = 0
          /\ (sweep.fds0 = {0, 1, 2, 5, 7} /\ sweep.keep = 2
                /\ sweep.failed = {}) => proc.fds = {0, 1, 2}

\* 0,1,2,5,7 open, t = 2, closing 5 failed and 7 was closed all the same
C14_Witness ==
    /\ SweepCompleted /\ proc.mode = "direct"
    /\ sweep.fds0 = {0, 1, 2, 5, 7} /\ sweep.keep = 2
    /\ sweep.failed = {5}
    /\ proc.fds = {0, 1, 2, 5}
    /\ parent.pc = "returned" /\ parent.rc = 0

\* C15: when execle fails, the child logs the error and yields -EIO, does not
\* go on to run the code of the caller that follows the launch call, and the
\* parent's return value is not the exec failure.
C15_ExecFailureStaysInChild ==
    "exec" \in proc.log =>
        /\ proc.rc = -EIO
        /\ proc.pc # "caller"
        /\ parent.pc = "returned" => parent.rc # -EIO

\* C17: when the directory cannot be opened osmo_close_all_fds_above returns
\* -ENODEV without closing any descriptor, and the child of osmo_system_nowait
\* then goes no further: it builds no environment and does not exec.
C17_OpendirFailureIsFatal ==
    "opendir" \in proc.log =>
        /\ sweep.rc = -ENODEV
        /\ sweep.attempted = {} /\ proc.fds = sweep.fds0
        /\ proc.mode = "direct" => (parent.pc = "returned" => parent.rc = -ENODEV)
        /\ proc.mode = "child" => proc.pc = "sweep_ret"

(***************************************************************************)
(* Claims about a dispatch whose callbacks call back into the registry.    *)
(***************************************************************************)
DispatchRunning == dispatch.pc \in {"visit", "in_callback", "advance"}

DispatchOver == dispatch.pc \in {"done", "crashed"}

\* the addresses of the entries the dispatch in progress has to deliver to
MatchingAddrs ==
    { signal_handler_list[i].addr :
        i \in { j \in 1..Len(signal_handler_list) :
                  signal_handler_list[j].subsys = dispatch.subsys } }

\* the triple of the registration whose callback is running
InvokedTriple ==
    [subsys |-> dispatch.inv[1].subsys, cbfn |-> dispatch.inv[1].cbfn,
     data |-> dispatch.inv[1].data]

\* C16 (as stated): every call of osmo_signal_dispatch comes to its end,
\* for every registry content and every callback behaviour, callbacks that
\* register further handlers included (leaving aside the dispatches in which
\* a callback removed the entry under the cursor).
C16_DispatchTerminates ==
    DispatchRunning ~>
        (DispatchOver \/ dispatch.cur_freed \/ dispatch.undefined)

\* C16 (amended): a dispatch during which no callback changes the registry
\* comes to its end, and at its end it has invoked the callback of every entry
\* of the dispatched subsystem, whatever the callbacks returned.
C16_TerminatesUnlessMutated ==
    /\ [](dispatch.pc = "done" /\ ~dispatch.mutated
            => dispatch.invoked = MatchingAddrs)
    /\ DispatchRunning ~> (dispatch.pc = "done" \/ dispatch.mutated)

\* a dispatch that delivered to two handlers, the last of which reported a
\* failure, and ended
C16_Witness ==
    /\ dispatch.pc = "done" /\ ~dispatch.mutated
    /\ Cardinality(dispatch.invoked) >= 2
    /\ dispatch.last_rc # 0

\* C18 (as stated): the entry from which the loop advances is always still a
\* member of the registry, for every callback behaviour.
C18_CursorStillMember ==
    dispatch.pc = "advance" =>
        /\ dispatch.cur \in UsedAddrs(signal_handler_list)
        /\ ~dispatch.cur_freed

\* C18 (amended): the entry from which the loop advances is still a member
\* of the registry provided its callback did not call
\* osmo_signal_unregister_handler with the triple of that very registration.
C18_CursorMemberUnlessOwnRemoved ==
    (dispatch.pc = "advance" /\ ~dispatch.unreg_own) =>
        /\ dispatch.cur \in UsedAddrs(signal_handler_list)
        /\ ~dispatch.cur_freed

\* a callback that removed another registration and added one has returned
C18_Witness ==
    /\ dispatch.pc = "advance" /\ ~dispatch.unreg_own
    /\ dispatch.inv # <<>> /\ dispatch.ops = CbCalls
    /\ dispatch.removed_ahead
    /\ Len(signal_handler_list) >= 2
    /\ ~dispatch.undefined

\* C19: whenever a callback is invoked, its triple has a registration that
\* has not been removed: a triple whose only registration was removed, also by
\* the callback of an earlier handler of the dispatch in progress, is not
\* invoked before it is registered anew.
C19_RemovedNotInvoked ==
    (dispatch.pc = "in_callback" /\ dispatch.ops = {}) =>
        net_regs[InvokedTriple] >= 1

\* a dispatch ended after a callback removed the only registration of a
\* triple the loop had not reached yet
C19_Witness ==
    /\ dispatch.pc = "done"
    /\ dispatch.removed_ahead
    /\ ~dispatch.undefined
    /\ \E t \in RegTriples : t.subsys = dispatch.subsys /\ net_regs[t] = 0

====
